---- MODULE Spec2Model ----
(***************************************************************************)
(* Model of IntegratedAttendanceSystem (src/Testcode.py): the menu loop    *)
(* run(), the intake loop mark_attendance_rfid(), the verification pass    *)
(* verify_attendance() and the remote mirror log_attendance_to_firebase(). *)
(*                                                                         *)
(* Time.  The wall clock is counted in half seconds.  Every time.sleep of  *)
(* the feedback routines advances it by the sleep rounded down to half     *)
(* seconds; Tick lets any further time pass (blocking reads, the camera    *)
(* window, the network).  strftime('%H:%M:%S') keeps whole seconds only.   *)
(*                                                                         *)
(* Faults.  The failures modelled are the ones the error taxonomy names:   *)
(* a failing INSERT into attendance_log, a failing remote set(), and the   *)
(* KeyboardInterrupt.  face verification is the camera's answer, a         *)
(* nondeterministic boolean.                                               *)
(***************************************************************************)
EXTENDS Integers, Sequences, FiniteSets, TLC

\* Bound of the model: the clock stops the run after MaxClock half seconds.
MaxClock == 5

\* History bound: the taps remembered per student.
MaxHist == 2

\* Bound of the enrollment runs: the clock stops them after MaxEnrollClock
\* half seconds.
MaxEnrollClock == 6

\* Python's None for current_session and for face_time.
None == <<>>

\* Half seconds per second and per day (strftime granularity).
UnitsPerSecond == 2
UnitsPerDay == 172800

\* time.sleep totals of the feedback routines, in half seconds, rounded down.
BLINK_UNITS == 1
BEEP3_UNITS == 1
ENROLL_BLINK_UNITS == 2
BEEP2_UNITS == 1

\* capture_face_samples: the number of prompts; register_student: the
\* number of descriptors an enrollment needs.
PROMPTS == 3
MIN_SAMPLES == 2

\* The rows of the students and lecturers tables the runs start from
\* (attendance.db persists across runs; rfid_id is the key here).
StudentRows ==
    (1 :> [unique_id |-> "idA", name |-> "A", face_descriptors |-> <<1, 2, 3>>]) @@
    (2 :> [unique_id |-> "idB", name |-> "B", face_descriptors |-> <<1, 3>>])

LecturerRows ==
    (3 :> [unique_id |-> "idL", name |-> "L", course_name |-> "n1", course_code |-> "c1"]) @@
    (4 :> [unique_id |-> "idM", name |-> "M", course_name |-> "n2", course_code |-> "c2"])

\* The tokens a reader can return: the registered ones and one bound to nobody.
Tokens == {1, 2, 3, 4, 5}

\* What the operator types at the enrollment prompts.
Names == {"A", "B"}
CourseNames == {"n1"}
CourseCodes == {"c1", "c2"}

VARIABLES
    students,                    \* table students: rfid_id -> row
    lecturers,                   \* table lecturers: rfid_id -> row
    attendance_log,              \* table attendance_log: rows in insertion order
    fb_lectures,                 \* remote collection 'lectures': session_id -> document
    fb_attendance,               \* remote 'lectures/{id}/attendance': <<session_id, rfid_id>> -> document
    current_session,             \* self.current_session
    temp_attendance,             \* self.temp_attendance
    persistent_rfid_attendance,  \* self.persistent_rfid_attendance (dict, insertion order)
    new_rfid_attendance,         \* self.new_rfid_attendance (dict, insertion order)
    clock,                       \* wall clock, half seconds
    pc,                          \* "menu" | "read" | "verify" | "mirror"
    idx,                         \* position of verify_attendance's for loop in the dict
    exitCause,                   \* how mark_attendance_rfid last ended: "none" | "error" | "interrupt"
    last,                        \* the step just taken and the feedback it gave
    rollover,                    \* history of the latest lecturer tap
    opened,                      \* history: the session ids assigned to current_session, in order
    tapHist,                     \* history: per student, outcomes of the taps since the latest lecturer tap
    dupConfirmed                 \* history: students that were told "No need to tap again"

vars == <<students, lecturers, attendance_log, fb_lectures, fb_attendance,
          current_session, temp_attendance, persistent_rfid_attendance,
          new_rfid_attendance, clock, pc, idx, exitCause, last, rollover,
          opened, tapHist, dupConfirmed>>

stores == <<students, lecturers, attendance_log, fb_lectures, fb_attendance>>

----------------------------------------------------------------------------
\* Python dicts: sequences of [key, value], keys unique, insertion order kept.

Keys(d) == {d[i].key : i \in DOMAIN d}

HasKey(d, k) == k \in Keys(d)

\* d[k] = v : an existing key keeps its position, a new one goes last.
DictSet(d, k, v) ==
    IF HasKey(d, k)
    THEN [i \in DOMAIN d |-> IF d[i].key = k THEN [key |-> k, value |-> v] ELSE d[i]]
    ELSE Append(d, [key |-> k, value |-> v])

\* d = e, and d + e for lists, in the place of d.update(e)
DictUpdateReplace(d, e) == e

DictUpdateConcat(d, e) == d \o e

\* d.update(e)
RECURSIVE DictUpdate(_, _)
DictUpdate(d, e) ==
    IF e = <<>> THEN d
    ELSE DictUpdate(DictSet(d, Head(e).key, Head(e).value), Tail(e))

----------------------------------------------------------------------------
\* datetime.now().strftime('%H:%M:%S') and strftime('%Y%m%d_%H%M%S'), '%Y-%m-%d'

TimeOfDay(c) == (c % UnitsPerDay) \div UnitsPerSecond

DateOf(c) == c \div UnitsPerDay

Stamp(c) == <<DateOf(c), TimeOfDay(c)>>

\* f"{course_code}_{now:%Y%m%d_%H%M%S}"
SessionId(course_code, c) == <<course_code, Stamp(c)>>

\* SELECT ... FROM students WHERE unique_id=?
StudentRfids(unique_id) == {r \in DOMAIN students : students[r].unique_id = unique_id}

Step(op, token, uid, outcome) ==
    [op |-> op, token |-> token, uid |-> uid, outcome |-> outcome]

NoRollover ==
    [exists |-> FALSE, ids |-> {}, session_id |-> None, remote_ok |-> 0,
     local_failed |-> {}, interrupted |-> FALSE, done |-> FALSE,
     staged |-> {}, tapped |-> {}, verified_earlier |-> {}]

StudentIds == {StudentRows[r].unique_id : r \in DOMAIN StudentRows}

----------------------------------------------------------------------------
Init ==
    /\ students = StudentRows
    /\ lecturers = LecturerRows
    /\ attendance_log = <<>>
    /\ fb_lectures = <<>>
    /\ fb_attendance = <<>>
    /\ current_session = None
    /\ temp_attendance = <<>>
    /\ persistent_rfid_attendance = <<>>
    /\ new_rfid_attendance = <<>>
    /\ clock = 0
    /\ pc = "menu"
    /\ idx = 0
    /\ exitCause = "none"
    /\ last = Step("Init", 0, "-", "-")
    /\ rollover = NoRollover
    /\ opened = <<>>
    /\ tapHist = [s \in StudentIds |-> <<>>]
    /\ dupConfirmed = {}

\* Time passes: a blocking read or input, the camera window, the network.
Tick ==
    /\ clock < MaxClock
    /\ clock' = clock + 1
    /\ last' = Step("Tick", 0, "-", "-")
    /\ UNCHANGED <<stores, current_session, temp_attendance,
                   persistent_rfid_attendance, new_rfid_attendance, pc, idx,
                   exitCause, rollover, opened, tapHist, dupConfirmed>>

\* run(): choice '3' enters mark_attendance_rfid.
StartAttendance ==
    /\ pc = "menu"
    /\ pc' = "read"
    /\ exitCause' = "none"
    /\ last' = Step("StartAttendance", 0, "-", "-")
    /\ UNCHANGED <<stores, current_session, temp_attendance,
                   persistent_rfid_attendance, new_rfid_attendance, clock, idx,
                   rollover, opened, tapHist, dupConfirmed>>

----------------------------------------------------------------------------
\* mark_attendance_rfid, one pass of the while loop for a student's or an
\* unknown token.

\* "if unique_id in self.persistent_rfid_attendance"
AlreadyConfirmedSkipped(unique_id) == FALSE

AlreadyConfirmed(unique_id) == HasKey(persistent_rfid_attendance, unique_id)

\* "if unique_id in self.new_rfid_attendance"
AlreadyInSessionSkipped(unique_id) == FALSE

AlreadyInSession(unique_id) == HasKey(new_rfid_attendance, unique_id)

\* The unknown token answered as a duplicate.
OutcomeUnknownAsDuplicate(rfid_id) ==
    IF rfid_id \notin DOMAIN students THEN "DuplicateInSession"
    ELSE IF AlreadyConfirmed(students[rfid_id].unique_id) THEN "DuplicateConfirmed"
    ELSE IF AlreadyInSession(students[rfid_id].unique_id) THEN "DuplicateInSession"
    ELSE "NewCheckIn"

\* The branch the loop takes for a token that is no lecturer's.
Outcome(rfid_id) ==
    IF rfid_id \notin DOMAIN students THEN "Unregistered"
    ELSE IF AlreadyConfirmed(students[rfid_id].unique_id) THEN "DuplicateConfirmed"
    ELSE IF AlreadyInSession(students[rfid_id].unique_id) THEN "DuplicateInSession"
    ELSE "NewCheckIn"

\* History: the first MaxHist outcomes are kept.
RememberTap(h, o) == IF Len(h) < MaxHist THEN Append(h, o) ELSE h

\* The tap of a token that is no lecturer's enters verify_attendance.
StudentTapVerifies(rfid_id) ==
    /\ pc = "read"
    /\ rfid_id \notin DOMAIN lecturers
    /\ clock + BLINK_UNITS <= MaxClock
    /\ pc' = "verify"
    /\ idx' = 1
    /\ clock' = clock + BLINK_UNITS
    /\ last' = Step("StudentTap", rfid_id, "-", Outcome(rfid_id))
    /\ UNCHANGED <<stores, current_session, temp_attendance,
                   persistent_rfid_attendance, new_rfid_attendance, exitCause,
                   rollover, opened, tapHist, dupConfirmed>>

StudentTap(rfid_id) ==
    /\ pc = "read"
    /\ rfid_id \notin DOMAIN lecturers
    /\ clock + BLINK_UNITS <= MaxClock
    /\ LET outcome == Outcome(rfid_id)
           unique_id == IF rfid_id \in DOMAIN students
                        THEN students[rfid_id].unique_id ELSE "-"
       IN /\ new_rfid_attendance' =
                IF outcome = "NewCheckIn"
                THEN DictSet(new_rfid_attendance, unique_id,
                             [name |-> students[rfid_id].name,
                              rfid_time |-> TimeOfDay(clock)])
                ELSE new_rfid_attendance
          /\ last' = Step("StudentTap", rfid_id, unique_id, outcome)
          /\ tapHist' = IF unique_id \in StudentIds
                        THEN [tapHist EXCEPT ![unique_id] = RememberTap(@, outcome)]
                        ELSE tapHist
          /\ dupConfirmed' = IF outcome = "DuplicateConfirmed"
                             THEN dupConfirmed \cup {unique_id} ELSE dupConfirmed
    /\ clock' = clock + BLINK_UNITS
    /\ UNCHANGED <<stores, current_session, temp_attendance,
                   persistent_rfid_attendance, pc, idx, exitCause, rollover, opened>>

----------------------------------------------------------------------------
\* History taken at a lecturer tap: the rfid_time each staged identity has
\* (the persistent dict's entry where there is one), the students that have
\* tapped since the previous lecturer tap, and the students that have a row
\* in attendance_log already.
StagedTimes ==
    {<<persistent_rfid_attendance[i].key, persistent_rfid_attendance[i].value.rfid_time>> :
        i \in DOMAIN persistent_rfid_attendance}
    \cup
    {<<new_rfid_attendance[i].key, new_rfid_attendance[i].value.rfid_time>> :
        i \in {j \in DOMAIN new_rfid_attendance :
                  ~HasKey(persistent_rfid_attendance, new_rfid_attendance[j].key)}}

TappedSinceRollover == {a \in StudentIds : tapHist[a] # <<>>}

HaveRows == {attendance_log[i].unique_id : i \in DOMAIN attendance_log}

\* mark_attendance_rfid, the lecturer branch up to the entry of
\* verify_attendance.  remote_ok: whether session_ref.set() succeeds.
LecturerTap(rfid_id, remote_ok) ==
    /\ pc = "read"
    /\ rfid_id \in DOMAIN lecturers
    /\ clock + BEEP3_UNITS <= MaxClock
    /\ LET now == clock + BEEP3_UNITS
           session_id == SessionId(lecturers[rfid_id].course_code, now)
           merged == DictUpdate(persistent_rfid_attendance, new_rfid_attendance)
           before == Keys(persistent_rfid_attendance) \cup Keys(new_rfid_attendance)
           history == [exists |-> TRUE, ids |-> before, session_id |-> session_id,
                       local_failed |-> {}, interrupted |-> FALSE,
                       staged |-> StagedTimes, tapped |-> TappedSinceRollover,
                       verified_earlier |-> HaveRows]
       IN /\ clock' = now
          /\ last' = Step("LecturerTap", rfid_id, "-", IF remote_ok THEN "SessionStart" ELSE "Error")
          /\ tapHist' = [s \in StudentIds |-> <<>>]
          /\ IF remote_ok
             THEN /\ fb_lectures' =
                       (session_id :> [course_code |-> lecturers[rfid_id].course_code,
                                       lecturer_rfid |-> rfid_id,
                                       start_time |-> now,
                                       status |-> "active"]) @@ fb_lectures
                  /\ current_session' = session_id
                  /\ opened' = Append(opened, session_id)
                  /\ persistent_rfid_attendance' = merged
                  /\ pc' = "verify"
                  \* verify_attendance: "if not self.current_session: return"
                  /\ idx' = IF session_id = None THEN Len(merged) + 1 ELSE 1
                  /\ rollover' = history @@ [remote_ok |-> 1, done |-> FALSE]
                  /\ UNCHANGED exitCause
             ELSE \* set() raises: "except Exception" of mark_attendance_rfid, the loop returns
                  /\ pc' = "menu"
                  /\ exitCause' = "error"
                  /\ idx' = 0
                  /\ rollover' = history @@ [remote_ok |-> 0, done |-> TRUE]
                  /\ UNCHANGED <<fb_lectures, current_session, opened,
                                 persistent_rfid_attendance>>
    /\ UNCHANGED <<students, lecturers, attendance_log, fb_attendance,
                   temp_attendance, new_rfid_attendance, dupConfirmed>>

----------------------------------------------------------------------------
\* "status = 'present' if face_verified else 'partial'"
StatusAlwaysPresent(face_verified) == "present"

StatusOf(face_verified) == IF face_verified THEN "present" ELSE "partial"

\* "current_time.strftime('%H:%M:%S') if face_verified else None"
FaceTimeOf(face_verified, c) == IF face_verified THEN <<TimeOfDay(c)>> ELSE None

\* verify_attendance: one pass of the for loop up to the local commit.
\* face_verified: what verify_face returns; local_ok: whether the INSERT
\* and commit succeed.
VerifyStep(face_verified, local_ok) ==
    /\ pc = "verify"
    /\ idx \in 1..Len(persistent_rfid_attendance)
    /\ LET unique_id == persistent_rfid_attendance[idx].key
           data == persistent_rfid_attendance[idx].value
           status == StatusOf(face_verified)
           row == [unique_id |-> unique_id,
                   name |-> data.name,
                   date |-> DateOf(clock),
                   session_id |-> current_session,
                   rfid_time |-> data.rfid_time,
                   face_time |-> FaceTimeOf(face_verified, clock),
                   status |-> status]
       IN /\ last' = Step("VerifyStep", 0, unique_id,
                          IF ~local_ok THEN "Error"
                          ELSE IF face_verified THEN "Match" ELSE "NoMatch")
          /\ IF StudentRfids(unique_id) = {}
             THEN \* "No face descriptors found": continue
                  /\ idx' = idx + 1
                  /\ UNCHANGED <<attendance_log, pc, rollover>>
             ELSE IF local_ok
             THEN /\ attendance_log' = Append(attendance_log, row)
                  /\ pc' = "mirror"
                  /\ UNCHANGED <<idx, rollover>>
             ELSE \* the INSERT raises: "except Exception" around the whole for loop
                  /\ idx' = Len(persistent_rfid_attendance) + 1
                  /\ rollover' = [rollover EXCEPT !.local_failed = @ \cup {unique_id}]
                  /\ UNCHANGED <<attendance_log, pc>>
    /\ UNCHANGED <<students, lecturers, fb_lectures, fb_attendance,
                   current_session, temp_attendance, persistent_rfid_attendance,
                   new_rfid_attendance, clock, exitCause, opened, tapHist,
                   dupConfirmed>>

\* The mirror document written with a fixed status.
log_attendance_fixed_status(unique_id, name, status, remote_ok) ==
    LET rfids == StudentRfids(unique_id)
        rfid_id == CHOOSE r \in rfids : TRUE
    IN IF rfids # {} /\ remote_ok
       THEN (<<current_session, rfid_id>> :>
                [unique_id |-> unique_id,
                 rfid_id |-> rfid_id,
                 name |-> name,
                 date |-> DateOf(clock),
                 time |-> TimeOfDay(clock),
                 status |-> "present"]) @@ fb_attendance
       ELSE fb_attendance

\* The mirror document filed under no session.
log_attendance_no_session(unique_id, name, status, remote_ok) ==
    LET rfids == StudentRfids(unique_id)
        rfid_id == CHOOSE r \in rfids : TRUE
    IN IF rfids # {} /\ remote_ok
       THEN (<<None, rfid_id>> :>
                [unique_id |-> unique_id,
                 rfid_id |-> rfid_id,
                 name |-> name,
                 date |-> DateOf(clock),
                 time |-> TimeOfDay(clock),
                 status |-> status]) @@ fb_attendance
       ELSE fb_attendance

\* log_attendance_to_firebase: the attendance collection after the call.
\* Nothing is written when the student's rfid_id is not found or when
\* attendance_ref.set() raises (remote_ok false); both are logged only.
log_attendance_to_firebase(unique_id, name, status, remote_ok) ==
    LET rfids == StudentRfids(unique_id)
        rfid_id == CHOOSE r \in rfids : TRUE
    IN IF rfids # {} /\ remote_ok
       THEN (<<current_session, rfid_id>> :>
                [unique_id |-> unique_id,
                 rfid_id |-> rfid_id,
                 name |-> name,
                 date |-> DateOf(clock),
                 time |-> TimeOfDay(clock),
                 status |-> status]) @@ fb_attendance
       ELSE fb_attendance

\* verify_attendance after the commit: log_attendance_to_firebase for the
\* row just committed (unique_id, name and status are the loop's locals),
\* then the LED feedback.
MirrorStep(remote_ok) ==
    /\ pc = "mirror"
    /\ clock + BLINK_UNITS <= MaxClock
    /\ LET row == attendance_log[Len(attendance_log)]
           written == StudentRfids(row.unique_id) # {} /\ remote_ok
       IN /\ fb_attendance' =
                log_attendance_to_firebase(row.unique_id, row.name, row.status, remote_ok)
          /\ rollover' = [rollover EXCEPT !.remote_ok = @ + (IF written THEN 1 ELSE 0)]
          /\ last' = Step("MirrorStep", 0, row.unique_id,
                          IF written THEN "Mirrored" ELSE "NotMirrored")
    /\ clock' = clock + BLINK_UNITS
    /\ idx' = idx + 1
    /\ pc' = "verify"
    /\ UNCHANGED <<students, lecturers, attendance_log, fb_lectures,
                   current_session, temp_attendance, persistent_rfid_attendance,
                   new_rfid_attendance, exitCause, opened, tapHist, dupConfirmed>>

\* verify_attendance returns (loop exhausted, or left through its except);
\* mark_attendance_rfid clears the new dict and reads the next token.
EndPass ==
    /\ pc = "verify"
    /\ idx > Len(persistent_rfid_attendance)
    /\ new_rfid_attendance' = <<>>
    /\ pc' = "read"
    /\ idx' = 0
    /\ rollover' = [rollover EXCEPT !.done = TRUE]
    /\ last' = Step("EndPass", 0, "-", "-")
    /\ UNCHANGED <<stores, current_session, temp_attendance,
                   persistent_rfid_attendance, clock, exitCause, opened,
                   tapHist, dupConfirmed>>

\* run(): "except KeyboardInterrupt" around mark_attendance_rfid.  Neither
\* "except Exception" of the loop or of the pass catches it.
KeyboardInterrupt ==
    /\ pc # "menu"
    /\ temp_attendance' = <<>>
    /\ current_session' = None
    /\ pc' = "menu"
    /\ idx' = 0
    /\ exitCause' = "interrupt"
    /\ rollover' = IF rollover.exists /\ ~rollover.done
                   THEN [rollover EXCEPT !.interrupted = TRUE]
                   ELSE rollover
    /\ last' = Step("KeyboardInterrupt", 0, "-", "-")
    /\ UNCHANGED <<stores, persistent_rfid_attendance, new_rfid_attendance,
                   clock, opened, tapHist, dupConfirmed>>

Next ==
    \/ Tick
    \/ StartAttendance
    \/ \E rfid_id \in Tokens : StudentTap(rfid_id)
    \/ \E rfid_id \in Tokens, remote_ok \in BOOLEAN : LecturerTap(rfid_id, remote_ok)
    \/ \E face_verified \in BOOLEAN, local_ok \in BOOLEAN : VerifyStep(face_verified, local_ok)
    \/ \E remote_ok \in BOOLEAN : MirrorStep(remote_ok)
    \/ EndPass
    \/ KeyboardInterrupt

Spec == Init /\ [][Next]_vars

----------------------------------------------------------------------------
\* Enrollment: register_student and register_lecturer, chosen from the menu.

\* hashlib.sha256(name.encode()).hexdigest()[:16]: a function of the name
\* alone, taken as free of collisions between different names.
generate_unique_id(name) == "id" \o name

\* Only the students table is asked.
is_rfid_registered_students_only(rfid_id) == rfid_id \in DOMAIN students

is_rfid_registered(rfid_id) ==
    rfid_id \in DOMAIN students \/ rfid_id \in DOMAIN lecturers

\* capture_face_samples: captured is the set of prompts at which
\* capture_face_sample returned a descriptor; the descriptors are kept in
\* the order of the prompts (the descriptor of prompt p is written p).
capture_face_samples(captured) ==
    IF captured = {} THEN <<>>
    ELSE [i \in 1..Cardinality(captured) |->
             CHOOSE p \in captured : Cardinality({q \in captured : q < p}) = i - 1]

\* Only the empty list is refused.
too_few_samples_empty_only(face_descriptors) == face_descriptors = <<>>

\* "if not face_descriptors or len(face_descriptors) < 2"
too_few_samples(face_descriptors) ==
    face_descriptors = <<>> \/ Len(face_descriptors) < MIN_SAMPLES

\* sqlite3.IntegrityError of an INSERT: unique_id is the PRIMARY KEY and
\* rfid_id is UNIQUE in each table.
IntegrityError(table, unique_id, rfid_id) ==
    \/ rfid_id \in DOMAIN table
    \/ \E r \in DOMAIN table : table[r].unique_id = unique_id

register_student(rfid_id, name, captured) ==
    /\ pc = "menu"
    /\ clock + ENROLL_BLINK_UNITS <= MaxEnrollClock
    /\ LET unique_id == generate_unique_id(name)
           face_descriptors == capture_face_samples(captured)
           outcome ==
               IF is_rfid_registered(rfid_id) THEN "DuplicateToken"
               ELSE IF too_few_samples(face_descriptors) THEN "InsufficientSamples"
               ELSE IF IntegrityError(students, unique_id, rfid_id) THEN "IntegrityError"
               ELSE "Registered"
       IN /\ students' =
                IF outcome = "Registered"
                THEN (rfid_id :> [unique_id |-> unique_id, name |-> name,
                                  face_descriptors |-> face_descriptors]) @@ students
                ELSE students
          /\ last' = Step("register_student", rfid_id, unique_id, outcome) @@
                     [samples |-> IF outcome = "DuplicateToken" THEN 0
                                  ELSE Len(face_descriptors)]
    /\ clock' = clock + ENROLL_BLINK_UNITS
    /\ UNCHANGED <<lecturers, attendance_log, fb_lectures, fb_attendance,
                   current_session, temp_attendance, persistent_rfid_attendance,
                   new_rfid_attendance, pc, idx, exitCause, rollover, opened,
                   tapHist, dupConfirmed>>

register_lecturer(rfid_id, name, course_name, course_code) ==
    /\ pc = "menu"
    /\ LET unique_id == generate_unique_id(name)
           outcome ==
               IF is_rfid_registered(rfid_id) THEN "DuplicateToken"
               ELSE IF IntegrityError(lecturers, unique_id, rfid_id) THEN "IntegrityError"
               ELSE "Registered"
       IN /\ clock + ENROLL_BLINK_UNITS +
                (IF outcome = "Registered" THEN BEEP2_UNITS ELSE 0) <= MaxEnrollClock
          /\ lecturers' =
                IF outcome = "Registered"
                THEN (rfid_id :> [unique_id |-> unique_id, name |-> name,
                                  course_name |-> course_name,
                                  course_code |-> course_code]) @@ lecturers
                ELSE lecturers
          /\ last' = Step("register_lecturer", rfid_id, unique_id, outcome)
          /\ clock' = clock + ENROLL_BLINK_UNITS +
                      (IF outcome = "Registered" THEN BEEP2_UNITS ELSE 0)
    /\ UNCHANGED <<students, attendance_log, fb_lectures, fb_attendance,
                   current_session, temp_attendance, persistent_rfid_attendance,
                   new_rfid_attendance, pc, idx, exitCause, rollover, opened,
                   tapHist, dupConfirmed>>

\* A fresh attendance.db: init_local_db has created the empty tables.
EnrollInit ==
    /\ students = <<>>
    /\ lecturers = <<>>
    /\ attendance_log = <<>>
    /\ fb_lectures = <<>>
    /\ fb_attendance = <<>>
    /\ current_session = None
    /\ temp_attendance = <<>>
    /\ persistent_rfid_attendance = <<>>
    /\ new_rfid_attendance = <<>>
    /\ clock = 0
    /\ pc = "menu"
    /\ idx = 0
    /\ exitCause = "none"
    /\ last = Step("Init", 0, "-", "-")
    /\ rollover = NoRollover
    /\ opened = <<>>
    /\ tapHist = [s \in StudentIds |-> <<>>]
    /\ dupConfirmed = {}

EnrollNext ==
    \/ \E rfid_id \in Tokens, name \in Names, captured \in SUBSET (1..PROMPTS) :
          register_student(rfid_id, name, captured)
    \/ \E rfid_id \in Tokens, name \in Names, course_name \in CourseNames,
          course_code \in CourseCodes :
          register_lecturer(rfid_id, name, course_name, course_code)

EnrollSpec == EnrollInit /\ [][EnrollNext]_vars

----------------------------------------------------------------------------
\* Properties.

\* The rows of attendance_log for one identity and one session.
RowsFor(unique_id, session_id) ==
    {i \in DOMAIN attendance_log :
        /\ attendance_log[i].unique_id = unique_id
        /\ attendance_log[i].session_id = session_id}

\* The latest lecturer tap has been processed to its end by the loop.
RolloverProcessed == rollover.exists /\ rollover.done /\ ~rollover.interrupted

\* The latest lecturer tap opened its session: session_ref.set() succeeded
\* and current_session was assigned.
SessionOpened == rollover.remote_ok > 0

\* C1: once the loop has finished processing a lecturer tap that opened a
\* session, every identity that was in the persistent or the new dict just
\* before the tap has exactly one attendance_log row for the new session id,
\* with status present or partial.
C1_RolloverTotal ==
    (RolloverProcessed /\ SessionOpened) =>
        \A id \in rollover.ids :
            /\ Cardinality(RowsFor(id, rollover.session_id)) = 1
            /\ \A i \in RowsFor(id, rollover.session_id) :
                   attendance_log[i].status \in {"present", "partial"}

\* C2: in every state no identity is a key of both the persistent and the
\* new dict.
C2_StagingDisjoint ==
    Keys(persistent_rfid_attendance) \cap Keys(new_rfid_attendance) = {}

\* C3: for a student in neither dict, the first tap since the latest lecturer
\* tap is a NewCheckIn that appends the student to the new dict with the tap
\* time; the next tap with no lecturer tap in between is a DuplicateInSession
\* that leaves both dicts, the session and every store unchanged.
C3_TwoTaps ==
    [][\A a \in StudentIds :
          /\ ( /\ last'.op = "StudentTap" /\ last'.uid = a
               /\ tapHist[a] = <<>>
               /\ ~HasKey(persistent_rfid_attendance, a)
               /\ ~HasKey(new_rfid_attendance, a) )
             => /\ last'.outcome = "NewCheckIn"
                /\ tapHist'[a] = <<"NewCheckIn">>
                /\ Len(new_rfid_attendance') = Len(new_rfid_attendance) + 1
                /\ new_rfid_attendance' =
                       Append(new_rfid_attendance,
                              new_rfid_attendance'[Len(new_rfid_attendance')])
                /\ new_rfid_attendance'[Len(new_rfid_attendance')].key = a
                /\ new_rfid_attendance'[Len(new_rfid_attendance')].value.rfid_time
                       = TimeOfDay(clock)
                /\ UNCHANGED <<persistent_rfid_attendance, current_session, stores>>
          /\ ( /\ last'.op = "StudentTap" /\ last'.uid = a
               /\ tapHist[a] = <<"NewCheckIn">> )
             => /\ last'.outcome = "DuplicateInSession"
                /\ UNCHANGED <<new_rfid_attendance, persistent_rfid_attendance,
                               current_session, stores>>
      ]_vars

\* C3 witness: a student has tapped twice with no lecturer tap in between,
\* and the second tap was reported as a duplicate in the session.
C3_Witness ==
    /\ last.op = "StudentTap"
    /\ last.outcome = "DuplicateInSession"
    /\ tapHist[last.uid] = <<"NewCheckIn", "DuplicateInSession">>

\* C4 as stated, the part that fails: a student whose tap was answered
\* DuplicateConfirmed never enters verification again, that is, no pass of
\* verify_attendance's loop is run for that student afterwards.
C4_NeverVerifiedAgain ==
    last.op = "VerifyStep" => last.uid \notin dupConfirmed

\* C4 as amended: a tap of a student in the persistent dict is a
\* DuplicateConfirmed that changes neither dict, the session nor any store
\* and starts no verification; every lecturer tap that opens a session hands
\* the whole persistent dict, that student included, to the verification pass.
C4_DuplicateConfirmed ==
    [][/\ \A a \in StudentIds :
             ( /\ last'.op = "StudentTap" /\ last'.uid = a
               /\ HasKey(persistent_rfid_attendance, a) )
             => /\ last'.outcome = "DuplicateConfirmed"
                /\ pc' = "read"
                /\ UNCHANGED <<new_rfid_attendance, persistent_rfid_attendance,
                               current_session, stores, idx>>
       /\ (last'.op = "LecturerTap" /\ last'.outcome = "SessionStart")
             => /\ Keys(persistent_rfid_attendance) \subseteq Keys(persistent_rfid_attendance')
                /\ pc' = "verify"
                /\ idx' = 1
      ]_vars

\* C4 witness: a student with a row in attendance_log taps and is answered
\* DuplicateConfirmed.
C4_Witness ==
    /\ last.op = "StudentTap"
    /\ last.outcome = "DuplicateConfirmed"
    /\ \E i \in DOMAIN attendance_log : attendance_log[i].unique_id = last.uid

\* C5: when every remote write of a lecturer tap has failed and no local
\* write has, the local store still holds one row per identity of the batch
\* for that tap's session.
C5_LocalIndependentOfRemote ==
    (RolloverProcessed /\ rollover.remote_ok = 0 /\ rollover.local_failed = {})
        => \A id \in rollover.ids :
               Cardinality(RowsFor(id, rollover.session_id)) = 1

\* C6: when a local write fails for one identity of a pass, every other
\* identity of the batch still gets its row for the session.
C6_LocalFailureSkipsOneRecord ==
    (RolloverProcessed /\ rollover.local_failed # {})
        => \A id \in rollover.ids \ rollover.local_failed :
               RowsFor(id, rollover.session_id) # {}

\* C7: no store failure ends the intake loop; mark_attendance_rfid is left
\* through the KeyboardInterrupt only.
C7_OnlyInterruptEndsLoop ==
    exitCause \in {"none", "interrupt"}

\* C8: after a KeyboardInterrupt the session is None and both the persistent
\* and the new dict are empty.
C8_InterruptResets ==
    (pc = "menu" /\ exitCause = "interrupt")
        => /\ current_session = None
           /\ persistent_rfid_attendance = <<>>
           /\ new_rfid_attendance = <<>>

\* C9: attendance_log holds at most one row per (unique_id, session_id), and
\* no step changes or removes a row already written.
C9_OneRowPerIdentityAndSession ==
    /\ [](\A i, j \in DOMAIN attendance_log :
             ( /\ attendance_log[i].unique_id = attendance_log[j].unique_id
               /\ attendance_log[i].session_id = attendance_log[j].session_id )
             => i = j)
    /\ [][/\ Len(attendance_log') >= Len(attendance_log)
          /\ SubSeq(attendance_log', 1, Len(attendance_log)) = attendance_log]_vars

\* C10: the session ids opened by the lecturer taps of one process run are
\* pairwise different.
C10_SessionIdsDistinct ==
    \A i, j \in DOMAIN opened : opened[i] = opened[j] => i = j

\* C11: at most one session has status active, in the process state and in
\* the session documents of the remote store.
C11_AtMostOneActiveSession ==
    Cardinality({sid \in DOMAIN fb_lectures : fb_lectures[sid].status = "active"}) <= 1

\* C12: a tap of a token that is in neither table is answered Unregistered
\* and changes neither dict, the session nor any store, and the loop goes on
\* reading.
C12_UnregisteredTap ==
    [][( /\ last'.op = "StudentTap"
         /\ last'.token \notin DOMAIN students
         /\ last'.token \notin DOMAIN lecturers )
       => /\ last'.outcome = "Unregistered"
          /\ pc' = "read"
          /\ UNCHANGED <<new_rfid_attendance, persistent_rfid_attendance,
                         current_session, stores>>
      ]_vars

\* C12 witness: an unknown token is tapped while a session is open and
\* identities are staged.
C12_Witness ==
    /\ last.op = "StudentTap"
    /\ last.outcome = "Unregistered"
    /\ current_session # None
    /\ persistent_rfid_attendance # <<>>

\* C17: every attendance_log row has status present or partial, present
\* exactly when its face_time is set; the row written after a match is
\* present with the time of the match, the one written after no match is
\* partial.
C17_StatusFollowsMatch ==
    /\ \A i \in DOMAIN attendance_log :
          /\ attendance_log[i].status \in {"present", "partial"}
          /\ attendance_log[i].status = "present" <=> attendance_log[i].face_time # None
          /\ attendance_log[i].status = "partial" <=> attendance_log[i].face_time = None
    /\ (last.op = "VerifyStep" /\ last.outcome \in {"Match", "NoMatch"})
          => /\ attendance_log # <<>>
             /\ LET row == attendance_log[Len(attendance_log)]
                IN /\ row.unique_id = last.uid
                   /\ row.status = IF last.outcome = "Match" THEN "present" ELSE "partial"
                   /\ row.face_time = IF last.outcome = "Match"
                                      THEN <<TimeOfDay(clock)>> ELSE None

\* C17 witness: the log holds a present row and a partial row.
C17_Witness ==
    /\ \E i \in DOMAIN attendance_log : attendance_log[i].status = "present"
    /\ \E i \in DOMAIN attendance_log : attendance_log[i].status = "partial"

\* The identities of the persistent dict with their rfid_time.
ConfirmedTimes ==
    {<<persistent_rfid_attendance[i].key, persistent_rfid_attendance[i].value.rfid_time>> :
        i \in DOMAIN persistent_rfid_attendance}

\* C18: when the loop has finished processing a lecturer tap that opened a
\* session, the new dict is empty and the persistent dict holds exactly the
\* identities that were in either dict before the tap, each with the
\* rfid_time it was staged with.
C18_MergeThenClear ==
    (last.op = "EndPass" /\ RolloverProcessed /\ SessionOpened)
        => /\ new_rfid_attendance = <<>>
           /\ Keys(persistent_rfid_attendance) = rollover.ids
           /\ ConfirmedTimes = rollover.staged
           /\ Len(persistent_rfid_attendance) = Cardinality(rollover.ids)

\* C18 witness: a processed lecturer tap had one identity confirmed earlier
\* and another one new.
C18_Witness ==
    /\ last.op = "EndPass" /\ RolloverProcessed /\ SessionOpened
    /\ Cardinality(rollover.ids) = 2
    /\ rollover.verified_earlier # {}

C20_MirrorHasLocalRow ==
    \A k \in DOMAIN fb_attendance :
        /\ k[2] \in DOMAIN students
        /\ students[k[2]].unique_id = fb_attendance[k].unique_id
        /\ \E i \in DOMAIN attendance_log :
              /\ attendance_log[i].unique_id = fb_attendance[k].unique_id
              /\ attendance_log[i].session_id = k[1]
              /\ attendance_log[i].status = fb_attendance[k].status

\* C20 witness: the remote store holds a partial document.
C20_Witness ==
    \E k \in DOMAIN fb_attendance : fb_attendance[k].status = "partial"

\* C13: a token is bound to at most one identity across both roles: an
\* enrollment of a student or a lecturer with a token that is already bound
\* ends in DuplicateToken and leaves both tables as they were, and no token
\* is ever in both tables.
C13_TokenBoundOnce ==
    /\ [](DOMAIN students \cap DOMAIN lecturers = {})
    /\ [][(/\ last'.op \in {"register_student", "register_lecturer"}
           /\ (last'.token \in DOMAIN students \/ last'.token \in DOMAIN lecturers))
              => /\ last'.outcome = "DuplicateToken"
                 /\ UNCHANGED <<students, lecturers>>]_vars

\* A lecturer enrollment refused because the token is a student's.
C13_Witness ==
    /\ last.op = "register_lecturer"
    /\ last.outcome = "DuplicateToken"
    /\ last.token \in DOMAIN students
    /\ last.token \notin DOMAIN lecturers

\* C14: a student enrollment that reaches the capture and gets fewer than 2
\* descriptors ends in InsufficientSamples and leaves both tables as they
\* were; every stored student has at least 2 descriptors, and a stored
\* student has all the descriptors that were captured.
C14_SampleQuorum ==
    /\ [](\A r \in DOMAIN students : Len(students[r].face_descriptors) >= 2)
    /\ [][(/\ last'.op = "register_student"
           /\ last'.outcome # "DuplicateToken"
           /\ last'.samples < 2)
              => /\ last'.outcome = "InsufficientSamples"
                 /\ UNCHANGED <<students, lecturers>>]_vars
    /\ [][(last'.op = "register_student" /\ last'.outcome = "Registered")
              => Len(students'[last'.token].face_descriptors) = last'.samples]_vars

\* One descriptor out of three prompts, refused, with a student already
\* enrolled.
C14_Witness ==
    /\ last.op = "register_student"
    /\ last.outcome = "InsufficientSamples"
    /\ last.samples = 1
    /\ students # <<>>
    /\ last.token \notin DOMAIN students

\* C15: a student enrollment fails only because of the token or the samples:
\* with a token bound to nobody and at least 2 descriptors it succeeds and
\* stores the identity with all captured descriptors, whatever names are
\* already enrolled.
C15_FailsOnlyOnTokenOrSamples ==
    (/\ last.op = "register_student"
     /\ last.outcome \notin {"DuplicateToken", "InsufficientSamples"})
        => /\ last.outcome = "Registered"
           /\ last.token \in DOMAIN students
           /\ students[last.token].unique_id = last.uid
           /\ Len(students[last.token].face_descriptors) = last.samples

\* C16: no two enrolled identities have the same unique_id, a student and a
\* lecturer of the same name included.
C16_IdsDoNotCollide ==
    /\ \A r, q \in DOMAIN students :
          r # q => students[r].unique_id # students[q].unique_id
    /\ \A r, q \in DOMAIN lecturers :
          r # q => lecturers[r].unique_id # lecturers[q].unique_id
    /\ \A r \in DOMAIN students, q \in DOMAIN lecturers :
          students[r].unique_id # lecturers[q].unique_id

\* C21: verification runs only as part of a lecturer tap: the tap of a
\* student's token (NewCheckIn, DuplicateInSession, DuplicateConfirmed) or
\* of an unregistered token leaves the loop reading, starts no verification
\* and adds no record to attendance_log or to the remote collections; the
\* loop enters verify_attendance only by a lecturer's tap, and records are
\* added only inside the pass such a tap started.
C21_VerificationOnlyOnLecturerTap ==
    [][/\ (last'.op = "StudentTap")
             => /\ pc' = "read"
                /\ UNCHANGED <<attendance_log, fb_attendance, fb_lectures,
                               current_session, persistent_rfid_attendance>>
       /\ (pc = "read" /\ pc' = "verify")
             => /\ last'.op = "LecturerTap"
                /\ last'.token \in DOMAIN lecturers
       /\ (attendance_log' # attendance_log \/ fb_attendance' # fb_attendance)
             => /\ pc \in {"verify", "mirror"}
                /\ last'.op \in {"VerifyStep", "MirrorStep"}
                /\ rollover.exists /\ ~rollover.done]_vars

\* A confirmed student taps again while records of an earlier pass exist,
\* and the loop goes on reading.
C21_Witness ==
    /\ last.op = "StudentTap"
    /\ last.outcome = "DuplicateConfirmed"
    /\ attendance_log # <<>>
    /\ pc = "read"

\* C22: no record is written while current_session is None, and every record
\* written during a pass, local row or remote document, carries the
\* session_id of the session opened by the lecturer tap that started the
\* pass, also for students who tapped before any session existed.
C22_RecordsCarryNewSession ==
    [][/\ (attendance_log' # attendance_log)
             => /\ current_session # None
                /\ Len(attendance_log') = Len(attendance_log) + 1
                /\ attendance_log'[Len(attendance_log')].session_id = rollover.session_id
                /\ rollover.session_id = opened[Len(opened)]
                /\ SubSeq(attendance_log', 1, Len(attendance_log)) = attendance_log
       /\ \A k \in DOMAIN fb_attendance' :
             (k \notin DOMAIN fb_attendance \/ fb_attendance'[k] # fb_attendance[k])
                => /\ current_session # None
                   /\ k[1] = rollover.session_id]_vars

\* The first session ever opened: a student who tapped while there was no
\* session has a row and a remote document under that session.
C22_Witness ==
    /\ last.op = "MirrorStep"
    /\ last.outcome = "Mirrored"
    /\ Len(opened) = 1
    /\ Len(attendance_log) = 1
    /\ attendance_log[1].session_id = opened[1]
    /\ \E k \in DOMAIN fb_attendance : k[1] = opened[1]

====
